---- MODULE Spec2Model ----
(***************************************************************************)
(* claude-super-dispatch: the session/queue orchestrator                   *)
(* (src/lib/tmux_orchestrator.py) and the agent mailbox                    *)
(* (src/lib/agent_messenger.py).                                           *)
(*                                                                         *)
(* Spec         : two processes work the task queue of one active.json     *)
(* RegistrySpec : two processes work the session registry of one file      *)
(* QueueSpec    : one process works the task queue, with every input       *)
(* DrainSpec    : Spec without kills, with fair saves and fair dequeueing  *)
(* SessionSpec  : one process works the registry, tmux answers in any way  *)
(* TimeoutSpec  : one process adds sessions and asks which have timed out  *)
(* MsgSpec      : callers of send, receive and mark_read on one mailbox    *)
(* MailboxSpec  : callers of every operation of the mailbox                *)
(* ConvSpec     : messages and replies are sent and threads are read       *)
(***************************************************************************)
EXTENDS Integers, Sequences, FiniteSets, Bags, TLC

(***************************************************************************)
(* Bounds of the model and inputs of the operations                        *)
(***************************************************************************)
\* orchestrator processes (each holds at most one TmuxOrchestrator object)
Procs == {"p1", "p2"}
SessionTaskIds == {"t1", "t2"}
QueueAgentTypes == {"coder"}
PreemptAgentTypes == {"reviewer"}
Priorities == {-1, 1, 2}
Prompts == {""}
\* the wall clock stops at MaxTime ticks
MaxTime == 1
\* total number of queue_task / preempt_queue calls
MaxTasks == 3
\* the same two bounds where two processes share the store
MaxSharedTasks == 2
MaxSharedTime == 1
\* total number of add_session calls
MaxAdds == 3
\* the wall clock of TimeoutSpec stops at MaxSessionTime ticks
MaxSessionTime == 4
\* clock ticks per minute
TicksPerMinute == 2
\* limits of a persisted document that was edited by hand
EditedMaxConcurrent == 2
EditedTimeoutMinutes == 1

\* mailbox: agents, message identifiers msg-1 .. msg-MaxIds, payloads;
\* MsgSpec sends MaxMsgs messages
Agents == {"A", "B"}
Senders == {"A"}
\* whom the messages of MailboxSpec and ConvSpec are sent to
ConvRecipients == {"B", "all"}
MaxMsgs == 2
\* the wall clock of ConvSpec stops at MaxConvTime ticks
MaxConvTime == 1
\* the identifiers uuid4 can give; ConvSpec sends one message for each
MaxIds == 3
MsgIds == 1..MaxIds
MsgTypes == {"request"}
Subjects == {"Help"}
Contents == {"fix bug"}
\* reply_to = None
NoReply == 0

\* limits written on first creation of the store
DefaultMaxConcurrent == 5
DefaultTimeoutMinutes == 10
\* add_session's default priority
DefaultPriority == 2

(***************************************************************************)
(* datetime.now().isoformat() and datetime.fromisoformat()                 *)
(* A timestamp string is a sequence of digits: two digits of whole minutes *)
(* and, only when the sub-minute part is not zero, one more digit for it   *)
(* (isoformat drops the fractional part when it is zero).                  *)
(***************************************************************************)
isoformat(t) ==
    LET m == t \div TicksPerMinute
        f == t % TicksPerMinute
    IN  IF f = 0 THEN <<m \div 10, m % 10>> ELSE <<m \div 10, m % 10, f>>

fromisoformat(s) ==
    (s[1] * 10 + s[2]) * TicksPerMinute + (IF Len(s) > 2 THEN s[3] ELSE 0)

\* Python's comparison of two strings: lexicographic, a proper prefix first
RECURSIVE StrLess(_, _)
StrLess(a, b) ==
    IF b = <<>> THEN FALSE
    ELSE IF a = <<>> THEN TRUE
    ELSE IF Head(a) # Head(b) THEN Head(a) < Head(b)
    ELSE StrLess(Tail(a), Tail(b))

(***************************************************************************)
(* Session and QueuedTask (dataclasses) and the persisted document         *)
(***************************************************************************)
\* f"agent-{task_id}"
SessionIdOf(task_id) == <<"agent", task_id>>

Session(task_id, agent_type, priority, started_at) ==
    [session_id |-> SessionIdOf(task_id), task_id |-> task_id,
     agent_type |-> agent_type, priority |-> priority,
     started_at |-> started_at, status |-> "running"]

QueuedTask(task_id, agent_type, priority, queued_at, prompt) ==
    [task_id |-> task_id, agent_type |-> agent_type, priority |-> priority,
     queued_at |-> queued_at, prompt |-> prompt]

Document(s, q, mc, tm) ==
    [sessions |-> s, queue |-> q, max_concurrent |-> mc, timeout_minutes |-> tm]

\* the file: absent, opened for writing and truncated, or holding a document
NoDocument == Document(<<>>, <<>>, 0, 0)
AbsentFile == [state |-> "absent", doc |-> NoDocument]
PartialFile == [state |-> "partial", doc |-> NoDocument]
CompleteFile(d) == [state |-> "complete", doc |-> d]

\* Length of json.dump(data, f, indent=2) for a document, less the length of
\* an empty one with one-digit limits.  A non-empty list costs 2 characters
\* and, per entry, a fixed part, one more for a minus sign, and the timestamp
\* (19 characters, 26 with a fractional part).
RECURSIVE EntriesLen(_, _)
EntriesLen(es, fixed) ==
    IF es = <<>> THEN 0
    ELSE LET e == Head(es)
             ts == IF "queued_at" \in DOMAIN e THEN e.queued_at ELSE e.started_at
         IN  fixed + (IF e.priority < 0 THEN 1 ELSE 0)
             + (IF Len(ts) > 2 THEN 26 ELSE 19) + EntriesLen(Tail(es), fixed)
ListLen(es, fixed) == IF es = <<>> THEN 0 ELSE 2 + EntriesLen(es, fixed)
Digits(n) == IF n < 10 THEN 1 ELSE 2
JsonSize(d) ==
    ListLen(d.sessions, 168) + ListLen(d.queue, 128)
    + Digits(d.max_concurrent) + Digits(d.timeout_minutes)

(***************************************************************************)
(* sort_queue: list.sort(key=(priority, queued_at)), a stable sort         *)
(***************************************************************************)
KeyLessDescending(a, b) ==
    \/ a.priority > b.priority
    \/ a.priority = b.priority /\ StrLess(a.queued_at, b.queued_at)

\* the key (x.priority, x.queued_at) of a is smaller than that of b
KeyLess(a, b) ==
    \/ a.priority < b.priority
    \/ a.priority = b.priority /\ StrLess(a.queued_at, b.queued_at)

\* x goes behind every element whose key is not greater than its own
RECURSIVE InsertStable(_, _)
InsertStable(x, s) ==
    IF s = <<>> THEN <<x>>
    ELSE IF KeyLess(x, Head(s)) THEN <<x>> \o s
    ELSE <<Head(s)>> \o InsertStable(x, Tail(s))

RECURSIVE StableSort(_, _)
StableSort(done, rest) ==
    IF rest = <<>> THEN done
    ELSE StableSort(InsertStable(Head(rest), done), Tail(rest))

keep_order(q) == q

sort_queue(q) == StableSort(<<>>, q)

(***************************************************************************)
(* State                                                                   *)
(***************************************************************************)
VARIABLES
    file,             \* sessions/active.json
    pc,               \* per process: "none", "idle" or "saving"
    sessions,         \* per process: self.sessions
    queue,            \* per process: self.queue
    max_concurrent,   \* per process: self.max_concurrent
    timeout_minutes,  \* per process: self.timeout_minutes
    ret,              \* per process: the last call and what it returns
    now,              \* the wall clock, in ticks
    loaded,           \* history: the queue each object was constructed with
    hist,             \* history: per object, the queue calls that returned
    enq,              \* history: bag of tasks whose enqueue returned
    deq,              \* history: bag of tasks returned by dequeue_next
    live,             \* history: sessions added and not removed
    ungated,          \* history: add_session was called with can_spawn() false
    count,            \* calls made so far, for the bounds
    inbox,            \* mailbox: inbox directories and their files
    outbox,           \* mailbox: outbox directories and their files
    writing,          \* mailbox: mark_read calls between open("w") and dump
    mret,             \* mailbox: the last call and what it returned
    marked            \* history: (agent, id) pairs mark_read returned True for

orchVars == <<file, pc, sessions, queue, max_concurrent, timeout_minutes, ret,
              loaded, hist, enq, deq, live, ungated, count>>
msgVars == <<inbox, outbox, writing, mret, marked>>
vars == <<orchVars, msgVars, now>>

NoRet == [op |-> "none", arg |-> <<>>, val |-> <<>>]
Ret(op, arg, val) == [op |-> op, arg |-> arg, val |-> val]
Event(op, task) == [op |-> op, task |-> task]

\* what _save_state writes for process p
MemDocument(p) ==
    Document(sessions[p], queue[p], max_concurrent[p], timeout_minutes[p])

OrchInit ==
    /\ file \in {AbsentFile,
                 CompleteFile(Document(<<>>, <<>>, EditedMaxConcurrent,
                                       EditedTimeoutMinutes))}
    /\ pc = [p \in Procs |-> "none"]
    /\ sessions = [p \in Procs |-> <<>>]
    /\ queue = [p \in Procs |-> <<>>]
    /\ max_concurrent = [p \in Procs |-> 0]
    /\ timeout_minutes = [p \in Procs |-> 0]
    /\ ret = [p \in Procs |-> NoRet]
    /\ loaded = [p \in Procs |-> <<>>]
    /\ hist = [p \in Procs |-> <<>>]
    /\ enq = EmptyBag
    /\ deq = EmptyBag
    /\ live = {}
    /\ ungated = FALSE
    /\ count = [adds |-> 0, tasks |-> 0]

(***************************************************************************)
(* TmuxOrchestrator: construction, _load_state and _save_state             *)
(***************************************************************************)
\* open(self.state_file, "w"): the file exists and is empty from here on
OpenForWriting(p) ==
    /\ file' = PartialFile
    /\ pc' = [pc EXCEPT ![p] = "saving"]

Forget(p) ==
    /\ sessions' = [sessions EXCEPT ![p] = <<>>]
    /\ queue' = [queue EXCEPT ![p] = <<>>]
    /\ max_concurrent' = [max_concurrent EXCEPT ![p] = 0]
    /\ timeout_minutes' = [timeout_minutes EXCEPT ![p] = 0]
    /\ loaded' = [loaded EXCEPT ![p] = <<>>]
    /\ hist' = [hist EXCEPT ![p] = <<>>]

\* the file does not exist: defaults, then _save_state
LoadAbsent(p) ==
    /\ file.state = "absent"
    /\ sessions' = [sessions EXCEPT ![p] = <<>>]
    /\ queue' = [queue EXCEPT ![p] = <<>>]
    /\ max_concurrent' = [max_concurrent EXCEPT ![p] = DefaultMaxConcurrent]
    /\ timeout_minutes' = [timeout_minutes EXCEPT ![p] = DefaultTimeoutMinutes]
    /\ loaded' = [loaded EXCEPT ![p] = <<>>]
    /\ hist' = [hist EXCEPT ![p] = <<>>]
    /\ OpenForWriting(p)
    /\ ret' = [ret EXCEPT ![p] = Ret("load", <<>>, "created")]

\* the file exists and json.load raises: no object is constructed
LoadUndecodable(p) ==
    /\ file.state = "partial"
    /\ Forget(p)
    /\ pc' = [pc EXCEPT ![p] = "none"]
    /\ ret' = [ret EXCEPT ![p] = Ret("load", <<>>, "JSONDecodeError")]
    /\ UNCHANGED file

LoadDocument(p) ==
    /\ file.state = "complete"
    /\ sessions' = [sessions EXCEPT ![p] = file.doc.sessions]
    /\ queue' = [queue EXCEPT ![p] = file.doc.queue]
    /\ max_concurrent' = [max_concurrent EXCEPT ![p] = file.doc.max_concurrent]
    /\ timeout_minutes' = [timeout_minutes EXCEPT ![p] = file.doc.timeout_minutes]
    /\ loaded' = [loaded EXCEPT ![p] = file.doc.queue]
    /\ hist' = [hist EXCEPT ![p] = <<>>]
    /\ pc' = [pc EXCEPT ![p] = "idle"]
    /\ ret' = [ret EXCEPT ![p] = Ret("load", <<>>, "loaded")]
    /\ UNCHANGED file

\* TmuxOrchestrator(): a process starts and makes its orchestrator object
Construct(p) ==
    /\ pc[p] = "none"
    /\ \/ LoadAbsent(p)
       \/ LoadUndecodable(p)
       \/ LoadDocument(p)
    /\ UNCHANGED <<enq, deq, live, ungated, count, now, msgVars>>

left_truncated(p) == PartialFile

\* json.dump and close: the buffered text goes out in one write at offset 0.
\* When another process has written a longer document since this one opened
\* the file, the tail of that document stays behind this one's text.
Written(p) ==
    IF file.state = "complete" /\ JsonSize(file.doc) > JsonSize(MemDocument(p))
    THEN PartialFile
    ELSE CompleteFile(MemDocument(p))

\* the second half of _save_state; the call that saved returns
SaveWrite(p) ==
    /\ pc[p] = "saving"
    /\ file' = Written(p)
    /\ pc' = [pc EXCEPT ![p] = "idle"]
    /\ enq' = IF ret[p].op \in {"queue_task", "preempt_queue"}
              THEN enq (+) SetToBag({ret[p].val}) ELSE enq
    /\ deq' = IF ret[p].op = "dequeue_next"
              THEN deq (+) SetToBag({ret[p].val[1]}) ELSE deq
    /\ hist' = [hist EXCEPT ![p] =
                 IF ret[p].op \in {"queue_task", "preempt_queue"}
                 THEN Append(@, Event(ret[p].op, ret[p].val))
                 ELSE IF ret[p].op = "dequeue_next"
                 THEN Append(@, Event(ret[p].op, ret[p].val[1]))
                 ELSE @]
    /\ live' = IF ret[p].op = "add_session" THEN live \cup {ret[p].val}
               ELSE IF ret[p].op = "remove_session"
               THEN {s \in live : s.session_id # ret[p].arg}
               ELSE live
    /\ UNCHANGED <<sessions, queue, max_concurrent, timeout_minutes, ret,
                   loaded, ungated, count, now, msgVars>>

\* the process is killed between open(..., "w") and the write
Crash(p) ==
    /\ pc[p] = "saving"
    /\ Forget(p)
    /\ pc' = [pc EXCEPT ![p] = "none"]
    /\ ret' = [ret EXCEPT ![p] = Ret("killed", <<>>, <<>>)]
    /\ UNCHANGED <<file, enq, deq, live, ungated, count, now, msgVars>>

(***************************************************************************)
(* Session registry                                                        *)
(***************************************************************************)
can_spawn_inclusive(p) == Len(sessions[p]) <= max_concurrent[p]

can_spawn_unequal(p) == Len(sessions[p]) # max_concurrent[p]

can_spawn(p) == Len(sessions[p]) < max_concurrent[p]

CanSpawn(p) ==
    /\ pc[p] = "idle"
    /\ ret' = [ret EXCEPT ![p] = Ret("can_spawn", <<>>, can_spawn(p))]
    /\ UNCHANGED <<file, pc, sessions, queue, max_concurrent, timeout_minutes,
                   loaded, hist, enq, deq, live, ungated, count, now, msgVars>>

AddSession(p, task_id, agent_type, priority) ==
    /\ pc[p] = "idle"
    /\ LET session == Session(task_id, agent_type, priority, isoformat(now))
       IN  /\ sessions' = [sessions EXCEPT ![p] = Append(@, session)]
           /\ ret' = [ret EXCEPT ![p] = Ret("add_session", task_id, session)]
    /\ OpenForWriting(p)
    /\ ungated' = (ungated \/ ~can_spawn(p))
    /\ count' = [count EXCEPT !.adds = @ + 1]
    /\ UNCHANGED <<queue, max_concurrent, timeout_minutes, loaded, hist, enq,
                   deq, live, now, msgVars>>

RemoveSession(p, session_id) ==
    /\ pc[p] = "idle"
    /\ LET kept == SelectSeq(sessions[p], LAMBDA s : s.session_id # session_id)
       IN  /\ sessions' = [sessions EXCEPT ![p] = kept]
           /\ \/ /\ Len(kept) < Len(sessions[p])
                 /\ OpenForWriting(p)
                 /\ ret' = [ret EXCEPT ![p] =
                              Ret("remove_session", session_id, TRUE)]
              \/ /\ ~(Len(kept) < Len(sessions[p]))
                 /\ ret' = [ret EXCEPT ![p] =
                              Ret("remove_session", session_id, FALSE)]
                 /\ UNCHANGED <<file, pc>>
    /\ UNCHANGED <<queue, max_concurrent, timeout_minutes, loaded, hist, enq,
                   deq, live, ungated, count, now, msgVars>>

(***************************************************************************)
(* cleanup_session, health_check and get_timed_out_sessions: the calls     *)
(* that run tmux or read the clock                                         *)
(***************************************************************************)
\* how subprocess.run(["tmux", "kill-session", ...], timeout=5) ends: exit
\* status 0, another exit status, or an exception (tmux missing, timeout)
KillOutcomes == {"killed", "failed", "raised"}

continues_unless_raised(outcome) == outcome # "raised"

\* "except Exception: pass": control reaches remove_session in every case
continues_after(outcome) == TRUE

CleanupSession(p, session_id, outcome) ==
    /\ pc[p] = "idle"
    /\ IF continues_after(outcome)
       THEN LET kept == SelectSeq(sessions[p], LAMBDA s : s.session_id # session_id)
            IN  /\ sessions' = [sessions EXCEPT ![p] = kept]
                /\ \/ /\ Len(kept) < Len(sessions[p])
                      /\ OpenForWriting(p)
                      /\ ret' = [ret EXCEPT ![p] =
                                   Ret("cleanup_session", <<session_id, outcome>>, TRUE)]
                   \/ /\ ~(Len(kept) < Len(sessions[p]))
                      /\ ret' = [ret EXCEPT ![p] =
                                   Ret("cleanup_session", <<session_id, outcome>>, FALSE)]
                      /\ UNCHANGED <<file, pc>>
       ELSE /\ ret' = [ret EXCEPT ![p] =
                         Ret("cleanup_session_raised", <<session_id, outcome>>, <<>>)]
            /\ UNCHANGED <<file, pc, sessions>>
    /\ UNCHANGED <<queue, max_concurrent, timeout_minutes, loaded, hist, enq,
                   deq, live, ungated, count, now, msgVars>>

\* how subprocess.run(["tmux", "has-session", ...]) ends for one session:
\* exit status 0, another exit status, or an exception (tmux missing)
ProbeOutcomes == {"yes", "no", "error"}

\* the identifiers of the sessions from place i on whose probe ended in one
\* of the given ways, in the order of the list
RECURSIVE ProbedAs(_, _, _, _)
ProbedAs(ss, probes, i, outcomes) ==
    IF i > Len(ss) THEN <<>>
    ELSE (IF probes[i] \in outcomes THEN <<ss[i].session_id>> ELSE <<>>)
         \o ProbedAs(ss, probes, i + 1, outcomes)

\* probes[i] is how the probe of the i-th session ends; subprocess.run is
\* not inside a try, so the first exception leaves health_check
HealthCheck(p, probes) ==
    /\ pc[p] = "idle"
    /\ ret' = [ret EXCEPT ![p] =
                 IF \E i \in 1..Len(probes) : probes[i] = "error"
                 THEN Ret("health_check_raised", probes, <<>>)
                 ELSE Ret("health_check", probes,
                          [healthy |-> ProbedAs(sessions[p], probes, 1, {"yes"}),
                           dead |-> ProbedAs(sessions[p], probes, 1, {"no"})])]
    /\ UNCHANGED <<file, pc, sessions, queue, max_concurrent, timeout_minutes,
                   loaded, hist, enq, deq, live, ungated, count, now, msgVars>>

reaches(elapsed, limit) == elapsed >= limit

\* "now - started > timedelta(minutes=self.timeout_minutes)"
exceeds(elapsed, limit) == elapsed > limit

\* timedelta(minutes=m), in ticks
timedelta(m) == m * TicksPerMinute

GetTimedOutSessions(p) ==
    /\ pc[p] = "idle"
    /\ LET timed_out ==
               SelectSeq(sessions[p],
                         LAMBDA s : exceeds(now - fromisoformat(s.started_at),
                                            timedelta(timeout_minutes[p])))
       IN  ret' = [ret EXCEPT ![p] = Ret("get_timed_out_sessions", now, timed_out)]
    /\ UNCHANGED <<file, pc, sessions, queue, max_concurrent, timeout_minutes,
                   loaded, hist, enq, deq, live, ungated, count, now, msgVars>>

(***************************************************************************)
(* Task queue                                                              *)
(***************************************************************************)
QueueTask(p, task_id, agent_type, priority, prompt) ==
    /\ pc[p] = "idle"
    /\ LET task == QueuedTask(task_id, agent_type, priority, isoformat(now),
                              prompt)
       IN  /\ queue' = [queue EXCEPT ![p] = sort_queue(Append(@, task))]
           /\ ret' = [ret EXCEPT ![p] = Ret("queue_task", task_id, task)]
    /\ OpenForWriting(p)
    /\ count' = [count EXCEPT !.tasks = @ + 1]
    /\ UNCHANGED <<sessions, max_concurrent, timeout_minutes, loaded, hist,
                   enq, deq, live, ungated, now, msgVars>>

DequeueNext(p) ==
    /\ pc[p] = "idle"
    /\ \/ /\ queue[p] = <<>>
          /\ ret' = [ret EXCEPT ![p] = Ret("dequeue_next", <<>>, <<>>)]
          /\ UNCHANGED <<file, pc, queue>>
       \/ /\ queue[p] # <<>>
          /\ queue' = [queue EXCEPT ![p] = Tail(@)]
          /\ ret' = [ret EXCEPT ![p] =
                       Ret("dequeue_next", <<>>, <<Head(queue[p])>>)]
          /\ OpenForWriting(p)
    /\ UNCHANGED <<sessions, max_concurrent, timeout_minutes, loaded, hist,
                   enq, deq, live, ungated, count, now, msgVars>>

\* self.queue.insert(0, task)
insert_sorted(q, task) == sort_queue(Append(q, task))

insert_at_head(q, task) == <<task>> \o q

PreemptQueue(p, task_id, agent_type, prompt) ==
    /\ pc[p] = "idle"
    /\ LET task == QueuedTask(task_id, agent_type, 0, isoformat(now), prompt)
       IN  /\ queue' = [queue EXCEPT ![p] = insert_at_head(@, task)]
           /\ ret' = [ret EXCEPT ![p] = Ret("preempt_queue", task_id, task)]
    /\ OpenForWriting(p)
    /\ count' = [count EXCEPT !.tasks = @ + 1]
    /\ UNCHANGED <<sessions, max_concurrent, timeout_minutes, loaded, hist,
                   enq, deq, live, ungated, now, msgVars>>

\* time passes between two readings of datetime.now()
Tick ==
    /\ now' = now + 1
    /\ UNCHANGED <<orchVars, msgVars>>

(***************************************************************************)
(* AgentMessenger: Message, the inbox and outbox directories               *)
(***************************************************************************)
Message(id, from_agent, to_agent, msg_type, subject, content, timestamp, reply_to) ==
    [id |-> id, from_agent |-> from_agent, to_agent |-> to_agent,
     msg_type |-> msg_type, subject |-> subject, content |-> content,
     timestamp |-> timestamp, reply_to |-> reply_to, read |-> FALSE]

\* a file <id>.json of a folder: not there, opened for writing and still
\* empty, or holding a message
NoFile == [kind |-> "none"]
EmptiedFile == [kind |-> "partial"]
MessageFile(m) == [kind |-> "message", msg |-> m]

NoFolder == [exists |-> FALSE, files |-> [i \in MsgIds |-> NoFile]]

\* folder.mkdir(exist_ok=True)
Mkdir(folders, name) == [folders EXCEPT ![name].exists = TRUE]

\* _write_message(folder, msg)
_write_message(folders, name, msg) ==
    [folders EXCEPT ![name].files[msg.id] = MessageFile(msg)]

\* the identifiers of the message files there are; uuid4 gives one of the
\* others
UsedIds ==
    {i \in MsgIds : \E a \in Agents : \/ inbox[a].files[i] # NoFile
                                      \/ outbox[a].files[i] # NoFile}

MsgInit ==
    /\ inbox = [a \in Agents |-> NoFolder]
    /\ outbox = [a \in Agents |-> NoFolder]
    /\ writing = {}
    /\ mret = NoRet
    /\ marked = {}

(***************************************************************************)
(* send                                                                    *)
(***************************************************************************)
every_agent == Agents

\* the directories inbox_path.iterdir() yields
existing_inboxes == {a \in Agents : inbox[a].exists}

RECURSIVE WriteToAll(_, _, _)
WriteToAll(folders, names, msg) ==
    IF names = {} THEN folders
    ELSE LET a == CHOOSE x \in names : TRUE
         IN  WriteToAll(_write_message(folders, a, msg), names \ {a}, msg)

Send(from_agent, to_agent, msg_type, subject, content, reply_to) ==
    \E id \in MsgIds \ UsedIds :
        LET msg == Message(id, from_agent, to_agent, msg_type, subject,
                           content, isoformat(now), reply_to)
        IN  /\ inbox' = IF to_agent = "all"
                        THEN WriteToAll(inbox, existing_inboxes, msg)
                        ELSE _write_message(Mkdir(inbox, to_agent), to_agent, msg)
            /\ outbox' = _write_message(Mkdir(outbox, from_agent), from_agent, msg)
            /\ mret' = Ret("send", <<from_agent, to_agent>>, msg)
            /\ UNCHANGED <<writing, marked, now, orchVars>>

(***************************************************************************)
(* receive                                                                 *)
(***************************************************************************)
keep_always(msg, unread_only) == TRUE

\* "if unread_only and msg.read: continue"
keep(msg, unread_only) == ~(unread_only /\ msg.read)

\* the loop over sorted(inbox.glob("*.json")), from file i on
RECURSIVE ReadFrom(_, _, _)
ReadFrom(files, i, unread_only) ==
    IF i > MaxIds THEN <<>>
    ELSE IF files[i].kind = "message" /\ keep(files[i].msg, unread_only)
    THEN <<files[i].msg>> \o ReadFrom(files, i + 1, unread_only)
    ELSE ReadFrom(files, i + 1, unread_only)

\* json.load raises on a file that holds no complete message
Undecodable(files) == \E i \in MsgIds : files[i].kind = "partial"

Receive(agent_id, unread_only) ==
    /\ inbox' = Mkdir(inbox, agent_id)
    /\ mret' = IF Undecodable(inbox[agent_id].files)
               THEN Ret("receive_raised", <<agent_id, unread_only>>,
                        "JSONDecodeError")
               ELSE Ret("receive", <<agent_id, unread_only>>,
                        ReadFrom(inbox[agent_id].files, 1, unread_only))
    /\ UNCHANGED <<outbox, writing, marked, now, orchVars>>

(***************************************************************************)
(* mark_read                                                               *)
(***************************************************************************)
toggle_read(data) == [data EXCEPT !.read = ~@]

set_read_lose_content(data) == [data EXCEPT !.read = TRUE, !.content = ""]

\* data["read"] = True
set_read(data) == [data EXCEPT !.read = TRUE]

\* no such file: False
MarkReadMissing(agent_id, msg_id) ==
    /\ inbox[agent_id].files[msg_id].kind = "none"
    /\ inbox' = Mkdir(inbox, agent_id)
    /\ mret' = Ret("mark_read", <<agent_id, msg_id, FALSE>>, FALSE)
    /\ UNCHANGED <<outbox, writing, marked, now, orchVars>>

\* the file is there and json.load raises
MarkReadUndecodable(agent_id, msg_id) ==
    /\ inbox[agent_id].files[msg_id].kind = "partial"
    /\ mret' = Ret("mark_read_raised", <<agent_id, msg_id>>, "JSONDecodeError")
    /\ UNCHANGED <<inbox, outbox, writing, marked, now, orchVars>>

\* the file is loaded, the flag set in memory, the file opened with "w"
MarkReadOpen(agent_id, msg_id) ==
    /\ inbox[agent_id].files[msg_id].kind = "message"
    /\ LET data == inbox[agent_id].files[msg_id].msg
       IN  writing' = writing \cup
                {[agent |-> agent_id, id |-> msg_id, data |-> set_read(data),
                  was_read |-> data.read]}
    /\ inbox' = [inbox EXCEPT ![agent_id].files[msg_id] = EmptiedFile]
    /\ mret' = Ret("mark_read_open", <<agent_id, msg_id>>, <<>>)
    /\ UNCHANGED <<outbox, marked, now, orchVars>>

\* json.dump and close; mark_read returns True
MarkReadWrite(w) ==
    /\ w \in writing
    /\ writing' = writing \ {w}
    /\ inbox' = [inbox EXCEPT ![w.agent].files[w.id] = MessageFile(w.data)]
    /\ mret' = Ret("mark_read", <<w.agent, w.id, w.was_read>>, TRUE)
    /\ marked' = marked \cup {<<w.agent, w.id>>}
    /\ UNCHANGED <<outbox, now, orchVars>>

\* the caller is killed between open(msg_file, "w") and the write
MarkReadKilled(w) ==
    /\ w \in writing
    /\ writing' = writing \ {w}
    /\ mret' = Ret("killed", <<w.agent, w.id>>, <<>>)
    /\ UNCHANGED <<inbox, outbox, marked, now, orchVars>>

(***************************************************************************)
(* get_conversation and get_stats                                          *)
(***************************************************************************)
\* the orders in which iterdir() and glob() can list the members of S
Orderings(S) ==
    {o \in [1..Cardinality(S) -> S] : \A i, j \in DOMAIN o : o[i] = o[j] => i = j}

FolderListings == Orderings(Agents)
ByName == CHOOSE o \in FolderListings : TRUE

\* two of the orders glob("*.json") can list a folder in: by name, both ways
FilesByName == [i \in MsgIds |-> i]
FileListings == {FilesByName, [i \in MsgIds |-> MaxIds + 1 - i]}

is_message(data, msg_id) == data.id = msg_id

\* 'data["id"] == msg_id or data.get("reply_to") == msg_id'
in_thread(data, msg_id) == data.id = msg_id \/ data.reply_to = msg_id

\* the loop over one folder's files, listed in the order ids
RECURSIVE ThreadIn(_, _, _)
ThreadIn(files, ids, msg_id) ==
    IF ids = <<>> THEN <<>>
    ELSE LET f == files[Head(ids)]
         IN  (IF f.kind = "message" /\ in_thread(f.msg, msg_id)
              THEN <<f.msg>> ELSE <<>>)
             \o ThreadIn(files, Tail(ids), msg_id)

\* the loop over the folders of one tree, listed in the order agents
RECURSIVE ThreadOf(_, _, _, _)
ThreadOf(folders, agents, ids, msg_id) ==
    IF agents = <<>> THEN <<>>
    ELSE ThreadIn(folders[Head(agents)].files, ids, msg_id)
         \o ThreadOf(folders, Tail(agents), ids, msg_id)

\* messages.sort(key=lambda m: m.timestamp): a stable sort on the strings
RECURSIVE InsertByTimestamp(_, _)
InsertByTimestamp(x, s) ==
    IF s = <<>> THEN <<x>>
    ELSE IF StrLess(x.timestamp, Head(s).timestamp) THEN <<x>> \o s
    ELSE <<Head(s)>> \o InsertByTimestamp(x, Tail(s))

RECURSIVE SortByTimestamp(_, _)
SortByTimestamp(done, rest) ==
    IF rest = <<>> THEN done
    ELSE SortByTimestamp(InsertByTimestamp(Head(rest), done), Tail(rest))

\* some file of some folder holds no complete message: json.load raises
AnyUndecodable(folders) == \E a \in Agents : Undecodable(folders[a].files)

GetConversation(msg_id, inboxes, outboxes, ids) ==
    /\ mret' = IF AnyUndecodable(inbox) \/ AnyUndecodable(outbox)
               THEN Ret("get_conversation_raised", msg_id, <<>>)
               ELSE Ret("get_conversation", msg_id,
                        SortByTimestamp(<<>>,
                            ThreadOf(inbox, inboxes, ids, msg_id)
                            \o ThreadOf(outbox, outboxes, ids, msg_id)))
    /\ UNCHANGED <<inbox, outbox, writing, marked, now, orchVars>>

\* the number of files of a folder that hold one of the given kinds of text
CountFiles(files, kinds) == Cardinality({i \in MsgIds : files[i].kind \in kinds})
RECURSIVE SumOver(_, _)
SumOver(f, S) ==
    IF S = {} THEN 0
    ELSE LET a == CHOOSE x \in S : TRUE IN f[a] + SumOver(f, S \ {a})

GetStats ==
    /\ mret' = IF AnyUndecodable(inbox)
               THEN Ret("get_stats_raised", <<>>, <<>>)
               ELSE Ret("get_stats", <<>>,
                        [total_messages |->
                            SumOver([a \in Agents |->
                                       CountFiles(inbox[a].files, {"message"})],
                                    Agents),
                         unread_messages |->
                            SumOver([a \in Agents |->
                                       Cardinality({i \in MsgIds :
                                           /\ inbox[a].files[i].kind = "message"
                                           /\ ~inbox[a].files[i].msg.read})],
                                    Agents),
                         agents_with_inbox |->
                            Cardinality({a \in Agents : inbox[a].exists})])
    /\ UNCHANGED <<inbox, outbox, writing, marked, now, orchVars>>

(***************************************************************************)
(* Specifications of the orchestrator                                      *)
(***************************************************************************)
Init == OrchInit /\ MsgInit /\ now = 0

\* callers name their tasks t1, t2, ... in the order of their calls
TaskIdSeq == <<"t1", "t2", "t3", "t4", "t5">>
NextTaskId == TaskIdSeq[count.tasks + 1]
\* the sessions a process may ask for
SessionInputs == SessionTaskIds \X {"coder"} \X {DefaultPriority}
\* the tasks a process may queue, and the tasks it may put at the head
TaskInputs == {NextTaskId} \X QueueAgentTypes \X Priorities \X Prompts
PreemptInputs == {NextTaskId} \X PreemptAgentTypes \X Prompts

Lifecycle(p) ==
    \/ Construct(p)
    \/ SaveWrite(p)
    \/ Crash(p)

RegistryCalls(p) ==
    \/ CanSpawn(p)
    \/ \E i \in SessionInputs :
          count.adds < MaxAdds /\ AddSession(p, i[1], i[2], i[3])
    \/ \E t \in SessionTaskIds : RemoveSession(p, SessionIdOf(t))

QueueCalls(p, budget, inputs) ==
    \/ \E i \in inputs :
          count.tasks < budget /\ QueueTask(p, i[1], i[2], i[3], i[4])
    \/ DequeueNext(p)
    \/ \E i \in PreemptInputs :
          count.tasks < budget /\ PreemptQueue(p, i[1], i[2], i[3])

\* Spec: the processes share the queue
Next ==
    \/ \E p \in Procs : Lifecycle(p)
    \/ \E p \in Procs : QueueCalls(p, MaxSharedTasks, TaskInputs)
    \/ now < MaxSharedTime /\ Tick

Spec == Init /\ [][Next]_vars

\* RegistrySpec: the processes share the session registry
RegistryNext ==
    \/ \E p \in Procs : Lifecycle(p)
    \/ \E p \in Procs : RegistryCalls(p)

RegistrySpec == Init /\ [][RegistryNext]_vars

\* DrainSpec: the processes share the queue and none is killed; a save that
\* was begun is finished, and every object with tasks in its queue is asked
\* for the next task again and again
DrainNext ==
    \/ \E p \in Procs : Construct(p)
    \/ \E p \in Procs : SaveWrite(p)
    \/ \E p \in Procs : QueueCalls(p, MaxSharedTasks, TaskInputs)

DrainSpec ==
    /\ Init
    /\ [][DrainNext]_vars
    /\ \A p \in Procs : WF_vars(SaveWrite(p)) /\ WF_vars(DequeueNext(p))

ProbeLists(n) == [1..n -> ProbeOutcomes]

SessionNext ==
    \/ Lifecycle("p1")
    \/ \E i \in SessionInputs :
          count.adds < MaxAdds /\ AddSession("p1", i[1], i[2], i[3])
    \/ \E t \in SessionTaskIds : RemoveSession("p1", SessionIdOf(t))
    \/ \E t \in SessionTaskIds, o \in KillOutcomes :
          CleanupSession("p1", SessionIdOf(t), o)
    \/ \E probes \in ProbeLists(Len(sessions["p1"])) : HealthCheck("p1", probes)

SessionSpec == Init /\ [][SessionNext]_vars

\* TimeoutSpec: one process adds sessions and asks which have timed out
\* while the clock runs
TimeoutNext ==
    \/ Lifecycle("p1")
    \/ \E i \in SessionInputs :
          count.adds < MaxAdds /\ AddSession("p1", i[1], i[2], i[3])
    \/ GetTimedOutSessions("p1")
    \/ now < MaxSessionTime /\ Tick

TimeoutSpec == Init /\ [][TimeoutNext]_vars

\* QueueSpec: one process works the queue, with every input
QueueNext ==
    \/ Lifecycle("p1")
    \/ QueueCalls("p1", MaxTasks, TaskInputs)
    \/ now < MaxTime /\ Tick

QueueSpec == Init /\ [][QueueNext]_vars

(***************************************************************************)
(* Specification of the mailbox                                            *)
(***************************************************************************)
\* the identifiers the callers of MsgSpec meet
MailboxIds == 1..MaxMsgs

MsgNext ==
    \/ \E f \in Senders, t \in Agents \cup {"all"}, k \in MsgTypes,
          sb \in Subjects, c \in Contents :
             Send(f, t, k, sb, c, NoReply) /\ mret'.val.id \in MailboxIds
    \/ \E a \in Agents, u \in BOOLEAN : Receive(a, u)
    \/ \E a \in Agents, i \in MailboxIds : MarkReadMissing(a, i)
    \/ \E a \in Agents, i \in MailboxIds : MarkReadUndecodable(a, i)
    \* one caller at a time is between the open and the write of mark_read
    \/ \E a \in Agents, i \in MailboxIds : writing = {} /\ MarkReadOpen(a, i)
    \/ \E w \in writing : MarkReadWrite(w)

MsgSpec == Init /\ [][MsgNext]_vars

\* MailboxSpec: every operation of the mailbox; messages are named msg-1,
\* msg-2, ... in the order they are sent, one caller at a time is between
\* the open and the write of mark_read, and the order of the listings is
\* left to ConvSpec
MailboxNext ==
    \/ \E f \in Senders, t \in ConvRecipients, k \in MsgTypes,
          sb \in Subjects, c \in Contents :
             /\ Send(f, t, k, sb, c, NoReply)
             /\ mret'.val.id = Cardinality(UsedIds) + 1
             /\ mret'.val.id \in MailboxIds
    \/ \E a \in Agents, u \in BOOLEAN : Receive(a, u)
    \/ \E a \in Agents, i \in MailboxIds : MarkReadMissing(a, i)
    \/ \E a \in Agents, i \in MailboxIds : MarkReadUndecodable(a, i)
    \/ \E a \in Agents, i \in MailboxIds : writing = {} /\ MarkReadOpen(a, i)
    \/ \E w \in writing : MarkReadWrite(w)
    \/ \E i \in MailboxIds : GetConversation(i, ByName, ByName, FilesByName)
    \/ GetStats

MailboxSpec == Init /\ [][MailboxNext]_vars

\* ConvSpec: messages and replies are sent while the clock runs, named
\* msg-1, msg-2, ... in the order they are sent, and threads are read
ConvNext ==
    \/ \E f \in Senders, t \in ConvRecipients, k \in MsgTypes,
          sb \in Subjects, c \in Contents, r \in {NoReply} \cup UsedIds :
             Send(f, t, k, sb, c, r) /\ mret'.val.id = Cardinality(UsedIds) + 1
    \* one inbox and one outbox: only the order of the files can differ
    \/ \E i \in MsgIds, fo \in FileListings :
          GetConversation(i, ByName, ByName, fo)
    \/ now < MaxConvTime /\ Tick

ConvSpec == Init /\ [][ConvNext]_vars

(***************************************************************************)
(* Properties of the shared store                                          *)
(***************************************************************************)
RECURSIVE Occurrences(_, _)
Occurrences(x, q) ==
    IF q = <<>> THEN 0
    ELSE (IF Head(q) = x THEN 1 ELSE 0) + Occurrences(x, Tail(q))

Quiescent == \A p \in Procs : pc[p] # "saving"

\* C1: once every call has returned and the file holds a document, every
\* task whose queue_task or preempt_queue returned is in the persisted queue
\* or was returned by a dequeue_next, and every session added and not
\* removed is in the persisted sessions.
C1_NoLostEntry ==
    (Quiescent /\ file.state = "complete") =>
        /\ \A t \in BagToSet(enq) :
              CopiesIn(t, enq) <= Occurrences(t, file.doc.queue) + CopiesIn(t, deq)
        /\ \A s \in live : Occurrences(s, file.doc.sessions) > 0

\* C5: a step never replaces a complete persisted document by anything but
\* a complete document.
C5_AtomicReplace ==
    [][file.state = "complete" => file'.state = "complete"]_vars

\* C19: no task is among the tasks dequeue_next calls have returned more
\* than once (every queue_task and preempt_queue call makes a task of its
\* own), whichever processes made the calls; and a dequeue_next that
\* returned nothing found its queue empty and started no save.
C19_NoDoubleDequeue ==
    /\ \A t \in BagToSet(deq) : CopiesIn(t, deq) <= 1
    /\ \A p \in Procs :
          (ret[p].op = "dequeue_next" /\ ret[p].val = <<>>) =>
              /\ queue[p] = <<>>
              /\ pc[p] = "idle"

(***************************************************************************)
(* Properties of the task queue                                            *)
(***************************************************************************)
IsEnqueue(e) == e.op \in {"queue_task", "preempt_queue"}
NoPreemptIn(h) == \A i \in 1..Len(h) : h[i].op # "preempt_queue"
\* the place of the call that enqueued task t in history h (0: not in h)
EnqueuedAt(h, t) ==
    IF \E i \in 1..Len(h) : IsEnqueue(h[i]) /\ h[i].task = t
    THEN CHOOSE i \in 1..Len(h) : IsEnqueue(h[i]) /\ h[i].task = t
    ELSE 0

\* C2: on an object that started with an empty queue and saw no
\* preempt_queue, of two tasks returned by consecutive dequeue_next calls
\* the second has no smaller priority value, and with equal priority it was
\* queued later.
C2_DequeueOrder ==
    \A p \in Procs :
        (loaded[p] = <<>> /\ NoPreemptIn(hist[p])) =>
            \A i \in 1..(Len(hist[p]) - 1) :
                (hist[p][i].op = "dequeue_next" /\ hist[p][i+1].op = "dequeue_next") =>
                    LET a == hist[p][i].task
                        b == hist[p][i+1].task
                    IN  /\ a.priority <= b.priority
                        /\ a.priority = b.priority =>
                              EnqueuedAt(hist[p], a) < EnqueuedAt(hist[p], b)

\* three tasks queued at the same instant, the most urgent last, then all
\* three dequeued: the urgent one first, the two others in queueing order
C2_Witness ==
    \E p \in Procs :
        LET h == hist[p] IN
        /\ Len(h) = 6
        /\ \A i \in 1..3 : h[i].op = "queue_task"
        /\ \A i \in 4..6 : h[i].op = "dequeue_next"
        /\ h[1].task.priority = h[2].task.priority
        /\ h[3].task.priority < h[1].task.priority
        /\ h[1].task.queued_at = h[2].task.queued_at
        /\ <<h[4].task, h[5].task, h[6].task>> = <<h[3].task, h[1].task, h[2].task>>

\* the calls queue_task("t1","coder",2), queue_task("t2","coder",1),
\* preempt_queue("t3","reviewer") on an empty queue, then three dequeue_next
IsScenario(p) ==
    LET h == hist[p] IN
    /\ loaded[p] = <<>>
    /\ Len(h) = 6
    /\ h[1].op = "queue_task" /\ h[2].op = "queue_task"
    /\ h[3].op = "preempt_queue"
    /\ \A i \in 4..6 : h[i].op = "dequeue_next"
    /\ h[1].task.task_id = "t1" /\ h[1].task.priority = 2
    /\ h[1].task.agent_type = "coder"
    /\ h[2].task.task_id = "t2" /\ h[2].task.priority = 1
    /\ h[2].task.agent_type = "coder"
    /\ h[3].task.task_id = "t3" /\ h[3].task.agent_type = "reviewer"

\* C3: a dequeue_next that directly follows a preempt_queue on the same
\* object returns the preempted task, whatever the queue held; and the
\* scenario's three dequeue_next calls return t3, t2, t1.
C3_PreemptThenDequeue ==
    \A p \in Procs :
        /\ \A i \in 1..(Len(hist[p]) - 1) :
              (hist[p][i].op = "preempt_queue" /\ hist[p][i+1].op = "dequeue_next")
                  => hist[p][i+1].task = hist[p][i].task
        /\ IsScenario(p) =>
              <<hist[p][4].task.task_id, hist[p][5].task.task_id,
                hist[p][6].task.task_id>> = <<"t3", "t2", "t1">>

\* a task of priority -1 and an earlier preempted task wait; a task is
\* preempted and the next dequeue_next returns it
C3_Witness ==
    \E p \in Procs :
        LET h == hist[p] IN
        /\ Len(h) = 4
        /\ h[1].op = "preempt_queue"
        /\ h[2].op = "queue_task" /\ h[2].task.priority < 0
        /\ h[3].op = "preempt_queue"
        /\ h[4].op = "dequeue_next" /\ h[4].task = h[3].task
        /\ Len(queue[p]) = 2

\* the scenario of C3 has run to its end
C3_ScenarioWitness == \E p \in Procs : IsScenario(p)

\* by (priority, queued_at) ascending, queued_at read as an instant
InOrder(a, b) ==
    \/ a.priority < b.priority
    \/ /\ a.priority = b.priority
       /\ fromisoformat(a.queued_at) <= fromisoformat(b.queued_at)
Sorted(q) == \A i, j \in 1..Len(q) : i < j => InOrder(q[i], q[j])

\* the place of the last queue_task in history h (0: none)
LastQueueTask(h) ==
    IF \E i \in 1..Len(h) : h[i].op = "queue_task"
    THEN CHOOSE i \in 1..Len(h) :
            /\ h[i].op = "queue_task"
            /\ \A j \in (i + 1)..Len(h) : h[j].op # "queue_task"
    ELSE 0
\* the places of the preempt_queue calls since then whose task no later
\* dequeue_next returned
StillPreempted(h) ==
    {i \in (LastQueueTask(h) + 1)..Len(h) :
        /\ h[i].op = "preempt_queue"
        /\ \A j \in (i + 1)..Len(h) :
              ~(h[j].op = "dequeue_next" /\ h[j].task = h[i].task)}

\* between the calls of an object that started with an empty queue, its
\* queue begins with the tasks preempted since the last queue_task, the
\* most recent first, all of priority 0, and goes on sorted; right after
\* a queue_task the whole queue is sorted; a persisted queue is an
\* unsorted run of priority 0 followed by a sorted rest
QueueShape ==
    /\ \A p \in Procs :
          /\ ret[p].op = "queue_task" => Sorted(queue[p])
          /\ (pc[p] = "idle" /\ loaded[p] = <<>>) =>
                LET h == hist[p]
                    front == StillPreempted(h)
                    k == Cardinality(front)
                IN  /\ Len(queue[p]) >= k
                    /\ \A i \in front :
                          LET n == 1 + Cardinality({j \in front : j > i})
                          IN  /\ queue[p][n] = h[i].task
                              /\ queue[p][n].priority = 0
                    /\ Sorted(SubSeq(queue[p], k + 1, Len(queue[p])))
    /\ file.state = "complete" =>
          \E k \in 0..Len(file.doc.queue) :
              /\ \A n \in 1..k : file.doc.queue[n].priority = 0
              /\ Sorted(SubSeq(file.doc.queue, k + 1, Len(file.doc.queue)))

\* a dequeue_next takes the head and a preempt_queue adds a head, and the
\* other entries stay in their order
NoReorder ==
    \A p \in Procs :
        queue'[p] # queue[p] =>
            /\ ret'[p].op = "dequeue_next" => queue'[p] = Tail(queue[p])
            /\ ret'[p].op = "preempt_queue" =>
                  /\ Head(queue'[p]) = ret'[p].val
                  /\ Tail(queue'[p]) = queue[p]

\* C18: the queue has the shape QueueShape in every reachable state, and
\* no dequeue_next or preempt_queue step reorders the entries it does not
\* take or add.
C18_QueueShape == []QueueShape /\ [][NoReorder]_vars

\* a task was queued and then two were preempted: the queue holds the
\* later preempted one, the earlier one and the queued task, in that order
C18_Witness ==
    \E p \in Procs :
        LET h == hist[p] IN
        /\ pc[p] = "idle"
        /\ Len(h) = 3
        /\ h[1].op = "queue_task" /\ h[1].task.priority < 0
        /\ h[2].op = "preempt_queue" /\ h[3].op = "preempt_queue"
        /\ queue[p] = <<h[3].task, h[2].task, h[1].task>>

\* a queue_task has sorted an earlier preempted task behind a task of
\* negative priority
C18_WitnessResorted ==
    \E p \in Procs :
        LET h == hist[p] IN
        /\ pc[p] = "idle"
        /\ Len(h) = 2
        /\ h[1].op = "preempt_queue" /\ h[2].op = "queue_task"
        /\ queue[p] = <<h[2].task, h[1].task>>

\* no queue_task or preempt_queue call is made in the step
NoEnqueue == count'.tasks = count.tasks

\* the persisted queue is empty and every task whose queue_task or
\* preempt_queue returned has been returned by a dequeue_next
Drained ==
    /\ file.state = "complete" => file.doc.queue = <<>>
    /\ file.state # "partial"
    /\ \A t \in BagToSet(enq) : CopiesIn(t, deq) >= 1

C20_StarvationWitness ==
    \E p \in Procs :
        LET h == hist[p] IN
        /\ Len(h) = 3
        /\ h[1].op = "queue_task" /\ h[2].op = "queue_task"
        /\ h[2].task.priority < h[1].task.priority
        /\ h[3].op = "dequeue_next" /\ h[3].task = h[2].task
        /\ queue[p] = <<h[1].task>>

(***************************************************************************)
(* Properties of the session registry                                      *)
(***************************************************************************)
\* C4: as long as every add_session was called when can_spawn() was true,
\* a persisted document holds at most max_concurrent sessions.
C4_GatedWithinLimit ==
    (~ungated /\ file.state = "complete") =>
        Len(file.doc.sessions) <= file.doc.max_concurrent

\* both processes added sessions behind the gate, the limit is reached in
\* the file, and more sessions were added than the limit
C4_Witness ==
    /\ ~ungated
    /\ file.state = "complete"
    /\ Len(file.doc.sessions) = file.doc.max_concurrent
    /\ count.adds > file.doc.max_concurrent
    /\ \A p \in Procs : pc[p] = "idle" /\ sessions[p] # <<>>

\* C9: no two sessions of a registry, in memory or persisted, have the same
\* session identifier.
UniqueIds(ss) ==
    \A i, j \in 1..Len(ss) : ss[i].session_id = ss[j].session_id => i = j
C9_UniqueSessionIds ==
    /\ \A p \in Procs : UniqueIds(sessions[p])
    /\ file.state = "complete" => UniqueIds(file.doc.sessions)

\* C10 as stated: can_spawn() returns false iff len(sessions) == max_concurrent
C10_FalseIffEqual ==
    \A p \in Procs :
        ret[p].op = "can_spawn" =>
            (ret[p].val = FALSE <=> Len(sessions[p]) = max_concurrent[p])

\* C10, amended: can_spawn() returns false iff len(sessions) >= max_concurrent
C10_FalseIffAtLeast ==
    \A p \in Procs :
        ret[p].op = "can_spawn" =>
            (ret[p].val = FALSE <=> Len(sessions[p]) >= max_concurrent[p])

\* can_spawn() has returned false on a registry holding more sessions than
\* the limit
C10_Witness ==
    \E p \in Procs :
        /\ ret[p].op = "can_spawn"
        /\ ret[p].val = FALSE
        /\ Len(sessions[p]) > max_concurrent[p]

(***************************************************************************)
(* Properties of loading, cleanup, health check and timeouts               *)
(***************************************************************************)
\* C11: constructing an orchestrator never ends in an error: it has either
\* loaded the persisted document or, the file being absent or not decodable,
\* created the store, and then the object holds the defaults (no sessions,
\* no tasks, max_concurrent 5, timeout_minutes 10).
C11_LoadNeverFatal ==
    \A p \in Procs :
        ret[p].op = "load" =>
            /\ ret[p].val \in {"created", "loaded"}
            /\ ret[p].val = "created" =>
                  MemDocument(p) = Document(<<>>, <<>>, DefaultMaxConcurrent,
                                            DefaultTimeoutMinutes)

\* the step is a call of one of the operations ops by process p (a call that
\* repeats the call before it and changes nothing is no step at all)
CallOf(p, ops) ==
    /\ ret'[p].op \in ops
    /\ \/ ret[p].op # ret'[p].op
       \/ ret[p] # ret'[p]
       \/ sessions[p] # sessions'[p]

Registered(ss, session_id) ==
    \E i \in 1..Len(ss) : ss[i].session_id = session_id

\* C12: every cleanup_session and remove_session call returns, whatever
\* the kill request did; afterwards the registry holds the other sessions
\* as before and none with the identifier; the result is true iff one was
\* registered before the call; then the call saves, and otherwise it
\* leaves sessions, queue and the file as they were.
C12_CleanupRemoves ==
    [][\A p \in Procs :
          CallOf(p, {"cleanup_session", "cleanup_session_raised", "remove_session"}) =>
              LET id == IF ret'[p].op = "remove_session"
                        THEN ret'[p].arg ELSE ret'[p].arg[1]
                  known == Registered(sessions[p], id)
              IN  /\ ret'[p].op # "cleanup_session_raised"
                  /\ ~Registered(sessions'[p], id)
                  /\ sessions'[p] =
                        SelectSeq(sessions[p], LAMBDA x : x.session_id # id)
                  /\ ret'[p].val = known
                  /\ queue' = queue
                  /\ known => pc'[p] = "saving"
                  /\ ~known => /\ sessions' = sessions
                               /\ file' = file
                               /\ pc' = pc]_vars

\* cleanup_session has removed a session although the kill request raised,
\* and another session stays registered
C12_Witness ==
    \E p \in Procs :
        /\ ret[p].op = "cleanup_session"
        /\ ret[p].arg[2] = "raised"
        /\ ret[p].val = TRUE
        /\ pc[p] = "saving"
        /\ Len(sessions[p]) = 1
        /\ ~Registered(sessions[p], ret[p].arg[1])

\* cleanup_session has returned false for an identifier that is not
\* registered, after a kill request that failed, with a session registered
C12_WitnessUnknown ==
    \E p \in Procs :
        /\ ret[p].op = "cleanup_session"
        /\ ret[p].arg[2] = "failed"
        /\ ret[p].val = FALSE
        /\ pc[p] = "idle"
        /\ Len(sessions[p]) = 1

\* C13: health_check always returns, and what it returns lists every
\* session once: in healthy the sessions whose probe said yes, in dead all
\* others, also those whose probe ended in an error.
C13_HealthCheckPartition ==
    \A p \in Procs :
        /\ ret[p].op # "health_check_raised"
        /\ ret[p].op = "health_check" =>
              LET probes == ret[p].arg
                  ss == sessions[p]
              IN  /\ ret[p].val.healthy = ProbedAs(ss, probes, 1, {"yes"})
                  /\ ret[p].val.dead = ProbedAs(ss, probes, 1, {"no", "error"})
                  /\ Len(ret[p].val.healthy) + Len(ret[p].val.dead) = Len(ss)

\* C14: get_timed_out_sessions returns, in the order of the registry, the
\* sessions added more than timeout_minutes minutes before the call, so one
\* added a minute more than that ago is returned and one added exactly
\* that long or a minute less ago is not; the call changes neither the
\* sessions nor the file nor starts a save.
C14_TimedOutExactly ==
    [][\A p \in Procs :
          CallOf(p, {"get_timed_out_sessions"}) =>
              /\ ret'[p].val =
                    SelectSeq(sessions[p],
                              LAMBDA s : \E t \in 0..now :
                                  /\ s.started_at = isoformat(t)
                                  /\ now - t > timeout_minutes[p] * TicksPerMinute)
              /\ sessions' = sessions
              /\ file' = file
              /\ pc' = pc]_vars

\* three sessions, added a minute more than the limit, exactly the limit
\* and a minute less than the limit before the call: the first is returned
C14_Witness ==
    \E p \in Procs :
        /\ ret[p].op = "get_timed_out_sessions"
        /\ timeout_minutes[p] > 0
        /\ Len(sessions[p]) = 3
        /\ LET at == ret[p].arg
               limit == timeout_minutes[p] * TicksPerMinute
           IN  /\ at >= limit + TicksPerMinute
               /\ sessions[p][1].started_at = isoformat(at - limit - TicksPerMinute)
               /\ sessions[p][2].started_at = isoformat(at - limit)
               /\ sessions[p][3].started_at = isoformat(at - limit + TicksPerMinute)
        /\ ret[p].val = <<sessions[p][1]>>

(***************************************************************************)
(* Properties of the mailbox                                               *)
(***************************************************************************)
\* the folders of a tree (inbox or outbox) that hold a file for message id
HoldersOf(folders, id) == {a \in Agents : folders[a].files[id] # NoFile}

\* C6: when send(..., "all", ...) has returned message m, every inbox
\* that exists holds m unread under m's identifier, no other inbox holds
\* a file for it, and the sender's outbox and no other holds m; all copies
\* are equal to m, so they share its identifier and timestamp.
C6_BroadcastCopies ==
    (mret.op = "send" /\ mret.val.to_agent = "all") =>
        LET m == mret.val IN
        /\ m.read = FALSE
        /\ \A a \in Agents :
              IF inbox[a].exists
              THEN inbox[a].files[m.id] = MessageFile(m)
              ELSE inbox[a].files[m.id] = NoFile
        /\ HoldersOf(outbox, m.id) = {m.from_agent}
        /\ outbox[m.from_agent].files[m.id] = MessageFile(m)

\* inboxes A and B exist, only A's held a message before, and a broadcast
\* has just put one unread copy into each
C6_Witness ==
    /\ mret.op = "send" /\ mret.val.to_agent = "all"
    /\ \A a \in Agents : inbox[a].exists
    /\ HoldersOf(inbox, mret.val.id) = Agents
    /\ \E i \in MsgIds \ {mret.val.id} : HoldersOf(inbox, i) = {"A"}

\* what an inbox holds, as a set of messages
InboxMessages(a) ==
    {inbox[a].files[i].msg : i \in {j \in MsgIds : inbox[a].files[j].kind = "message"}}
Elements(seq) == {seq[i] : i \in 1..Len(seq)}
\* the message as it was sent: the copy in its sender's outbox
Sent(id) ==
    LET a == CHOOSE x \in Agents : outbox[x].files[id].kind = "message"
    IN  outbox[a].files[id].msg
WasSent(id) == \E x \in Agents : outbox[x].files[id].kind = "message"

\* C7: a receive that returned (it raises on an emptied file) returned, in the order of the
\* identifiers (the file names), exactly the unread messages of the inbox
\* with unread_only and all its messages without; so a message sent to the
\* agent alone and not marked read is returned unread by both, and a message
\* mark_read returned True for is left out with unread_only and returned
\* with read = true without.
C7_ReceiveRoundTrip ==
    mret.op = "receive" =>
        LET agent == mret.arg[1]
            unread_only == mret.arg[2]
            got == mret.val
        IN  /\ Elements(got) =
                 {m \in InboxMessages(agent) : unread_only => ~m.read}
            /\ \A i, j \in 1..Len(got) : i < j => got[i].id < got[j].id
            /\ \A id \in MsgIds :
                  (WasSent(id) /\ Sent(id).to_agent = agent
                   /\ <<agent, id>> \notin marked)
                      => \E k \in 1..Len(got) : got[k] = Sent(id)
            /\ \A id \in MsgIds :
                  <<agent, id>> \in marked =>
                      IF unread_only
                      THEN \A k \in 1..Len(got) : got[k].id # id
                      ELSE \E k \in 1..Len(got) :
                              got[k] = [Sent(id) EXCEPT !.read = TRUE]

\* B's inbox holds a message marked read and an unread one with a smaller
\* identifier sent later; receive("B") has returned the unread one only
C7_Witness ==
    /\ mret.op = "receive" /\ mret.arg = <<"B", TRUE>>
    /\ Len(mret.val) = 1
    /\ \E id \in MsgIds : /\ <<"B", id>> \in marked
                          /\ mret.val[1].id # id
                          /\ mret.val[1].to_agent = "B"

\* both messages of B's inbox are returned by receive("B", unread_only=False),
\* one of them read
C7_WitnessAll ==
    /\ mret.op = "receive" /\ mret.arg = <<"B", FALSE>>
    /\ Len(mret.val) = 2
    /\ mret.val[1].read /\ ~mret.val[2].read

\* C8: when mark_read has returned True its message file holds the message
\* as sent but for read = true, also when the message was read already;
\* when it has returned False there is no such file and none was marked;
\* and every message file is the message as sent, read exactly in the
\* inboxes mark_read returned True for, so no call changed another file.
C8_MarkReadIdempotent ==
    /\ mret.op = "mark_read" =>
          LET agent == mret.arg[1]
              id == mret.arg[2]
          IN  IF mret.val
              THEN inbox[agent].files[id] =
                      MessageFile([Sent(id) EXCEPT !.read = TRUE])
              ELSE /\ inbox[agent].files[id] = NoFile
                   /\ <<agent, id>> \notin marked
    /\ \A a \in Agents, i \in MsgIds :
          /\ inbox[a].files[i].kind = "message" =>
                inbox[a].files[i].msg =
                    [Sent(i) EXCEPT !.read = (<<a, i>> \in marked)]
          /\ outbox[a].files[i].kind = "message" => ~outbox[a].files[i].msg.read

\* mark_read has returned True for a message that was read already
C8_Witness ==
    /\ mret.op = "mark_read"
    /\ mret.val = TRUE
    /\ mret.arg[3] = TRUE
    /\ <<mret.arg[1], mret.arg[2]>> \in marked

\* the file mark_read is at work on, when the step is one of mark_read
MarkReadTarget ==
    IF mret'.op \in {"mark_read_open", "mark_read"}
    THEN {<<mret'.arg[1], mret'.arg[2]>>}
    ELSE {}

\* C15: in every step of send, receive, mark_read, get_conversation and
\* get_stats, a message file of an outbox stays as it is; a message file of
\* an inbox that holds a message before and after holds the same message,
\* but that read may have become true; the only inbox file a step changes
\* is the one a mark_read is at work on, and what mark_read writes there
\* is the message as sent with read = true.
C15_CopiesImmutable ==
    [][\A a \in Agents, i \in MsgIds :
          /\ outbox[a].files[i].kind = "message" =>
                outbox'[a].files[i] = outbox[a].files[i]
          /\ (inbox[a].files[i].kind = "message"
              /\ inbox'[a].files[i].kind = "message") =>
                inbox'[a].files[i].msg \in
                    {inbox[a].files[i].msg,
                     [inbox[a].files[i].msg EXCEPT !.read = TRUE]}
          /\ (inbox[a].files[i].kind # "none"
              /\ inbox'[a].files[i] # inbox[a].files[i]) =>
                /\ <<a, i>> \in MarkReadTarget
                /\ inbox'[a].files[i].kind = "message" =>
                      inbox'[a].files[i].msg = [Sent(i) EXCEPT !.read = TRUE]]_vars

\* a broadcast lies in both inboxes and in the outbox; mark_read has
\* returned True for one inbox, whose copy is read, and the copy of the
\* other inbox and the one of the outbox are unread as sent
C15_Witness ==
    /\ mret.op = "mark_read"
    /\ mret.val = TRUE
    /\ LET a == mret.arg[1]
           i == mret.arg[2]
       IN  /\ inbox[a].files[i] = MessageFile([Sent(i) EXCEPT !.read = TRUE])
           /\ Sent(i).to_agent = "all"
           /\ ~Sent(i).read
           /\ \E b \in Agents \ {a} : inbox[b].files[i] = MessageFile(Sent(i))

\* the message files of a tree that hold exactly message m
CopiesOf(folders, m) ==
    Cardinality({a \in Agents : folders[a].files[m.id] = MessageFile(m)})
\* every message some file holds
MessagesIn(folders) ==
    UNION {{folders[a].files[i].msg :
               i \in {j \in MsgIds : folders[a].files[j].kind = "message"}} :
           a \in Agents}
AllMessages == MessagesIn(inbox) \cup MessagesIn(outbox)

\* C16: what get_conversation(msg_id) has returned holds each message as
\* often as there are inbox and outbox files holding it when its id or its
\* reply_to is msg_id, and no other message; and no message of the result
\* is followed by one with an earlier timestamp.
C16_ConversationCopies ==
    mret.op = "get_conversation" =>
        LET msg_id == mret.arg
            got == mret.val
        IN  /\ \A m \in AllMessages \cup Elements(got) :
                  Occurrences(m, got) =
                      IF m.id = msg_id \/ m.reply_to = msg_id
                      THEN CopiesOf(inbox, m) + CopiesOf(outbox, m)
                      ELSE 0
            /\ \A i, j \in 1..Len(got) :
                  i < j => fromisoformat(got[i].timestamp)
                             <= fromisoformat(got[j].timestamp)

\* a message, a later reply to it and a reply to that reply were sent;
\* get_conversation of the first has returned the inbox and outbox copies
\* of the message and of the reply, the message's first, and no copy of the
\* reply to the reply
C16_Witness ==
    /\ mret.op = "get_conversation"
    /\ \E m1, m2, m3 \in AllMessages :
          /\ mret.arg = m1.id
          /\ m1.reply_to = NoReply /\ m2.reply_to = m1.id /\ m3.reply_to = m2.id
          /\ m1.id # m2.id /\ m2.id # m3.id /\ m1.id # m3.id
          /\ fromisoformat(m1.timestamp) < fromisoformat(m2.timestamp)
          /\ mret.val = <<m1, m1, m2, m2>>

\* C17: no message file is ever empty or cut off, and no receive,
\* mark_read, get_conversation or get_stats ends in an error over one.
C17_MarkReadAtomic ==
    /\ \A a \in Agents, i \in MsgIds : inbox[a].files[i].kind # "partial"
    /\ mret.op \notin {"receive_raised", "mark_read_raised",
                        "get_conversation_raised", "get_stats_raised"}

====
